---- MODULE Spec2Model ----
(***************************************************************************)
(* Model of src/src/lib.rs: the fixed-array codec ([T; N] as a serde       *)
(* tuple), the ChunkDataRow / ChunkData grid wrappers and the Coord        *)
(* arithmetic operators.                                                   *)
(***************************************************************************)
EXTENDS Integers, Sequences, FiniteSets, TLC

\* ------------------------------------------------------------------ bounds
MaxN == 4          \* largest array length N explored by the codec model
MaxElem == 1       \* largest element value carried by codec arrays and wires
MaxLen == 5        \* longest input sequence handed to deserialize
MaxX == 2          \* largest row length X of a grid
MaxY == 3          \* largest row count Y of a grid
MaxIndex == 4      \* largest index passed to an indexed read or write
MaxWrites == 1     \* indexed writes applied to one grid
MaxInt == 9        \* isize::MAX of the modelled machine integer

VARIABLES
    N,        \* const N: usize of the array type under (de)serialization
    arr,      \* the array value, [0..N-1 -> element]
    wire,     \* the sequence held by the format: serializer output / SeqAccess input
    X,        \* const X: usize of ChunkData<X, Y>
    Y,        \* const Y: usize of ChunkData<X, Y>
    block,    \* the BlockID the grid was constructed with
    grid,     \* the ChunkData value, [0..Y-1 -> [0..X-1 -> BlockID]]
    writes,   \* number of indexed writes applied to the grid
    a,        \* left operand (self) of a Coord operator
    rhs,      \* right operand: a Coord or an isize scalar
    call,     \* the last operation called, with its arguments
    out       \* what that operation returned, or Panic

vars == <<N, arr, wire, X, Y, block, grid, writes, a, rhs, call, out>>

None == [tag |-> "none"]
NoCall == [name |-> "none"]

\* a Rust panic: index out of bounds, division by zero, arithmetic overflow
Panic == [tag |-> "panic"]


\* ------------------------------------------------ fixed-array codec, lib.rs 12-49

\* T::default() for T = BlockID = usize
DefaultElem == 0

\* [T::default(); N]
DefaultArray(n) == [i \in 0..(n - 1) |-> DefaultElem]

\* seeded fault: the loop emits each element in front of those already emitted
RECURSIVE SerializeLoopPrepends(_, _, _, _)
SerializeLoopPrepends(array, n, i, seq) ==
    IF i >= n THEN seq
    ELSE SerializeLoopPrepends(array, n, i + 1, <<array[i]>> \o seq)

\* for elem in &self[..] { seq.serialize_element(elem)?; }
RECURSIVE SerializeLoop(_, _, _, _)
SerializeLoop(array, n, i, seq) ==
    IF i >= n THEN seq
    ELSE SerializeLoop(array, n, i + 1, Append(seq, array[i]))

\* serializer.serialize_tuple(N)?; the loop; seq.end()
Serialize(array, n) == SerializeLoop(array, n, 0, <<>>)

\* SeqAccess::next_element::<T>() at cursor pos: Ok(None) once the input is
\* exhausted, Err when the item does not decode as T (a negative number is no
\* usize), Ok(Some(v)) otherwise.
NextElement(input, pos) ==
    IF pos >= Len(input) THEN [tag |-> "end"]
    ELSE IF input[pos + 1] < 0 THEN [tag |-> "err"]
    ELSE [tag |-> "some", v |-> input[pos + 1]]

\* seeded fault: invalid_length reports the expected length N, not the index i
RECURSIVE VisitLoopReportsLength(_, _, _, _, _)
VisitLoopReportsLength(n, input, i, pos, array) ==
    IF i >= n THEN [tag |-> "ok", arr |-> array, pos |-> pos]
    ELSE LET e == NextElement(input, pos) IN
         IF e.tag = "err" THEN [tag |-> "element_error", index |-> i]
         ELSE IF e.tag = "end" THEN [tag |-> "invalid_length", index |-> n]
         ELSE VisitLoopReportsLength(n, input, i + 1, pos + 1,
                                     [array EXCEPT ![i] = e.v])

\* for (i, elem) in arr.iter_mut().enumerate() { *elem = seq.next_element()?
\*     .ok_or_else(|| A::Error::invalid_length(i, &self))?; }  Ok(arr)
RECURSIVE VisitLoop(_, _, _, _, _)
VisitLoop(n, input, i, pos, array) ==
    IF i >= n THEN [tag |-> "ok", arr |-> array, pos |-> pos]
    ELSE LET e == NextElement(input, pos) IN
         IF e.tag = "err" THEN [tag |-> "element_error", index |-> i]
         ELSE IF e.tag = "end" THEN [tag |-> "invalid_length", index |-> i]
         ELSE VisitLoop(n, input, i + 1, pos + 1, [array EXCEPT ![i] = e.v])

\* seeded fault: the visitor asks for one more element after the loop and
\* rejects an input that still has one
VisitSeqRejectsTrailing(n, input) ==
    LET res == VisitLoop(n, input, 0, 0, DefaultArray(n)) IN
    IF res.tag = "ok" /\ NextElement(input, res.pos).tag # "end"
    THEN [tag |-> "invalid_length", index |-> n + 1]
    ELSE res

\* ArrayVisitor::visit_seq
VisitSeq(n, input) == VisitLoop(n, input, 0, 0, DefaultArray(n))

\* deserializer.deserialize_tuple(N, visitor): the format hands its sequence to
\* the visitor
Deserialize(n, input) == VisitSeq(n, input)

\* ------------------------------------- ChunkDataRow / ChunkData, lib.rs 51-111

\* BlockID::default() for BlockID = usize
DefaultBlock == 0

\* the length of a fixed-size array value
ArrayLen(array) == Cardinality(DOMAIN array)

\* self.0[index] read: the slice bounds check, then the element
ArrayGet(array, index) ==
    IF index < ArrayLen(array)
    THEN [tag |-> "ok", v |-> array[index]]
    ELSE Panic

\* seeded fault: a store past the end is dropped instead of panicking
ArraySetIgnoresOutOfRange(array, index, v) ==
    IF index < ArrayLen(array)
    THEN [tag |-> "ok", v |-> [array EXCEPT ![index] = v]]
    ELSE [tag |-> "ok", v |-> array]

\* self.0[index] = v through &mut: the slice bounds check, then the store
ArraySet(array, index, v) ==
    IF index < ArrayLen(array)
    THEN [tag |-> "ok", v |-> [array EXCEPT ![index] = v]]
    ELSE Panic

\* seeded fault: the fill constructor ignores its argument, as default() does
RowNewDefault(n, b) == [i \in 0..(n - 1) |-> DefaultBlock]

\* ChunkDataRow::new: Self([block; N])
RowNew(n, b) == [i \in 0..(n - 1) |-> b]

\* ChunkDataRow::default: [BlockID::default(); N]
RowDefault(n) == [i \in 0..(n - 1) |-> DefaultBlock]

\* Index<usize> for ChunkDataRow
RowIndex(row, index) == ArrayGet(row, index)

\* IndexMut<usize> for ChunkDataRow, and the store through the reference
RowIndexMut(row, index, v) == ArraySet(row, index, v)

\* ChunkData::new: Self([ChunkDataRow::new(block); Y])
GridNew(x, y, b) == [r \in 0..(y - 1) |-> RowNew(x, b)]

\* ChunkData::default: Self([ChunkDataRow::default(); Y])
GridDefault(x, y) == [r \in 0..(y - 1) |-> RowDefault(x)]

\* Index<usize> for ChunkData
GridIndex(g, index) == ArrayGet(g, index)

\* IndexMut<usize> for ChunkData, and the store of a whole row through it
GridIndexMut(g, index, row) == ArraySet(g, index, row)

\* grid[r][c]: ChunkData::index, then ChunkDataRow::index on the row
GridReadCell(g, r, c) ==
    LET row == GridIndex(g, r) IN
    IF row = Panic THEN Panic ELSE RowIndex(row.v, c)

\* grid[r][c] = v: ChunkData::index_mut, then ChunkDataRow::index_mut and the store
GridWriteCell(g, r, c, v) ==
    LET row == GridIndex(g, r) IN
    IF row = Panic THEN Panic
    ELSE LET new == RowIndexMut(row.v, c, v) IN
         IF new = Panic THEN Panic ELSE GridIndexMut(g, r, new.v)

\* derive(Serialize) on ChunkDataRow with serde(with = "DeSerializable"): the
\* newtype wraps the codec's tuple of N BlockIDs
RowSerialize(row) == Serialize(row, ArrayLen(row))

\* seeded fault: the rows are emitted into one flat sequence of X * Y identifiers
RECURSIVE FlattenRows(_, _)
FlattenRows(g, r) ==
    IF r >= ArrayLen(g) THEN <<>>
    ELSE RowSerialize(g[r]) \o FlattenRows(g, r + 1)

GridSerializeFlat(g) == FlattenRows(g, 0)

\* derive(Serialize) on ChunkData with serde(with = "DeSerializable"): the codec's
\* tuple of Y rows, each element serialized by ChunkDataRow's Serialize
GridSerialize(g) ==
    Serialize([r \in DOMAIN g |-> RowSerialize(g[r])], ArrayLen(g))

\* ------------------------------------------------------ Coord, lib.rs 113-169

\* isize::MIN of the modelled machine integer
MinInt == -MaxInt - 1

InRange(n) == MinInt <= n /\ n <= MaxInt

\* two's-complement wrap-around of an out-of-range result
Wrap(n) == ((n - MinInt) % (2 * MaxInt + 2)) + MinInt

Abs(n) == IF n < 0 THEN -n ELSE n

OkInt(n) == [tag |-> "ok", v |-> n]

\* isize + isize: panics on overflow when overflow checks are compiled in,
\* wraps otherwise
AddI(checks, x, y) ==
    IF InRange(x + y) THEN OkInt(x + y)
    ELSE IF checks THEN Panic ELSE OkInt(Wrap(x + y))

\* isize * isize: as for +
MulI(checks, x, y) ==
    IF InRange(x * y) THEN OkInt(x * y)
    ELSE IF checks THEN Panic ELSE OkInt(Wrap(x * y))

\* seeded fault: the quotient is rounded toward negative infinity
DivIFloor(x, y) ==
    IF y = 0 THEN Panic
    ELSE IF x = MinInt /\ y = -1 THEN Panic
    ELSE LET q == Abs(x) \div Abs(y) IN
         OkInt(IF (x < 0) = (y < 0) THEN q
               ELSE IF Abs(x) % Abs(y) = 0 THEN -q ELSE -q - 1)

\* isize / isize: panics on a zero divisor and on MIN / -1; the quotient is
\* rounded toward zero
DivI(x, y) ==
    IF y = 0 THEN Panic
    ELSE IF x = MinInt /\ y = -1 THEN Panic
    ELSE LET q == Abs(x) \div Abs(y) IN
         OkInt(IF (x < 0) = (y < 0) THEN q ELSE -q)

\* seeded fault: the remainder is never negative (rem_euclid)
RemIEuclid(x, y) ==
    IF y = 0 THEN Panic
    ELSE IF x = MinInt /\ y = -1 THEN Panic
    ELSE OkInt(x % Abs(y))

\* isize % isize: panics on a zero divisor and on MIN % -1; the remainder takes
\* the sign of the dividend
RemI(x, y) ==
    IF y = 0 THEN Panic
    ELSE IF x = MinInt /\ y = -1 THEN Panic
    ELSE LET m == Abs(x) % Abs(y) IN
         OkInt(IF x < 0 THEN -m ELSE m)

\* Self(e0, e1): a panic in either component expression unwinds the operator
CoordOf(e0, e1) ==
    IF e0 = Panic \/ e1 = Panic THEN Panic
    ELSE [tag |-> "ok", x |-> e0.v, y |-> e1.v]

\* Coord::new
CoordNew(x, y) == [x |-> x, y |-> y]

\* impl Add<Coord> for Coord
CoordAdd(checks, p, q) == CoordOf(AddI(checks, p.x, q.x), AddI(checks, p.y, q.y))

\* seeded fault: both components are multiplied by rhs.0
CoordMulFirstFactor(checks, p, q) ==
    CoordOf(MulI(checks, p.x, q.x), MulI(checks, p.y, q.x))

\* impl Mul<Coord> for Coord
CoordMul(checks, p, q) == CoordOf(MulI(checks, p.x, q.x), MulI(checks, p.y, q.y))

\* impl Div<Coord> for Coord
CoordDiv(p, q) == CoordOf(DivI(p.x, q.x), DivI(p.y, q.y))

\* seeded fault: a zero divisor yields the origin instead of panicking
CoordDivScalarZeroGuard(p, s) ==
    IF s = 0 THEN [tag |-> "ok", x |-> 0, y |-> 0]
    ELSE CoordOf(DivI(p.x, s), DivI(p.y, s))

\* impl Div<isize> for Coord
CoordDivScalar(p, s) == CoordOf(DivI(p.x, s), DivI(p.y, s))

\* impl Rem<Coord> for Coord
CoordRem(p, q) == CoordOf(RemI(p.x, q.x), RemI(p.y, q.y))

\* ---------------------------------------------------------- state machines

ArrayIdle == N = 0 /\ arr = <<>> /\ wire = <<>>
GridIdle == X = 0 /\ Y = 0 /\ block = DefaultBlock /\ grid = <<>> /\ writes = 0
CoordIdle == a = CoordNew(0, 0) /\ rhs = [kind |-> "scalar", s |-> 1]

\* ---- the codec: an array to encode, or an input sequence to decode

Elems == 0..MaxElem
WireItems == -1..MaxElem
Arrays(n) == [0..(n - 1) -> Elems]
Wires == UNION {[1..l -> WireItems] : l \in 0..MaxLen}

ArrayInit ==
    /\ N \in 0..MaxN
    /\ \/ arr \in Arrays(N) /\ wire = <<>>
       \/ arr = DefaultArray(N) /\ wire \in Wires
    /\ GridIdle /\ CoordIdle
    /\ call = NoCall
    /\ out = None

\* DeSerializable::serialize on arr; the format now holds the emitted sequence
DoSerialize ==
    /\ call = NoCall
    /\ wire' = Serialize(arr, N)
    /\ call' = [name |-> "serialize"]
    /\ out' = [tag |-> "ok"]
    /\ UNCHANGED <<N, arr, X, Y, block, grid, writes, a, rhs>>

\* DeSerializable::deserialize on the sequence the format holds
DoDeserialize ==
    /\ call.name \in {"none", "serialize"}
    /\ out' = Deserialize(N, wire)
    /\ call' = [name |-> "deserialize",
                src |-> IF call.name = "serialize" THEN "serialized" ELSE "input"]
    /\ UNCHANGED <<N, arr, wire, X, Y, block, grid, writes, a, rhs>>

ArrayNext == DoSerialize \/ DoDeserialize

SpecArray == ArrayInit /\ [][ArrayNext]_vars

\* ---- the grid: constructed, then read, written and serialized

\* the BlockIDs grids are constructed with and written with
BlockInputs == {DefaultBlock, 1, 7}
Indices == 0..MaxIndex

GridInit ==
    /\ X \in 0..MaxX
    /\ Y \in 0..MaxY
    /\ \/ block \in BlockInputs /\ grid = GridNew(X, Y, block)
       \/ block = DefaultBlock /\ grid = GridDefault(X, Y)
    /\ writes = 0
    /\ ArrayIdle /\ CoordIdle
    /\ call = NoCall
    /\ out = None

\* let v = grid[r][c];
DoReadCell ==
    /\ out # Panic
    /\ \E r \in Indices, c \in Indices :
        /\ call' = [name |-> "read_cell", r |-> r, c |-> c]
        /\ out' = GridReadCell(grid, r, c)
    /\ UNCHANGED <<N, arr, wire, X, Y, block, grid, writes, a, rhs>>

\* let row = grid[r];
DoReadRow ==
    /\ out # Panic
    /\ \E r \in Indices :
        /\ call' = [name |-> "read_row", r |-> r]
        /\ out' = GridIndex(grid, r)
    /\ UNCHANGED <<N, arr, wire, X, Y, block, grid, writes, a, rhs>>

\* grid[r][c] = v;
DoWriteCell ==
    /\ out # Panic
    /\ writes < MaxWrites
    /\ \E r \in Indices, c \in Indices, v \in BlockInputs :
        LET res == GridWriteCell(grid, r, c, v) IN
        /\ call' = [name |-> "write_cell", r |-> r, c |-> c, v |-> v]
        /\ grid' = IF res = Panic THEN grid ELSE res.v
        /\ out' = IF res = Panic THEN Panic ELSE [tag |-> "ok"]
    /\ writes' = writes + 1
    /\ UNCHANGED <<N, arr, wire, X, Y, block, a, rhs>>

\* grid[r] = ChunkDataRow::new(v);
DoWriteRow ==
    /\ out # Panic
    /\ writes < MaxWrites
    /\ \E r \in Indices, v \in BlockInputs :
        LET res == GridIndexMut(grid, r, RowNew(X, v)) IN
        /\ call' = [name |-> "write_row", r |-> r, v |-> v]
        /\ grid' = IF res = Panic THEN grid ELSE res.v
        /\ out' = IF res = Panic THEN Panic ELSE [tag |-> "ok"]
    /\ writes' = writes + 1
    /\ UNCHANGED <<N, arr, wire, X, Y, block, a, rhs>>

\* grid.serialize(serializer)
DoSerializeGrid ==
    /\ out # Panic
    /\ call' = [name |-> "serialize_grid"]
    /\ out' = [tag |-> "ok", v |-> GridSerialize(grid)]
    /\ UNCHANGED <<N, arr, wire, X, Y, block, grid, writes, a, rhs>>

GridNext ==
    DoReadCell \/ DoReadRow \/ DoWriteCell \/ DoWriteRow \/ DoSerializeGrid

SpecGrid == GridInit /\ [][GridNext]_vars

\* ---- coordinates: two operands, one operator applied to them

Ints == MinInt..MaxInt
Coords == [x : Ints, y : Ints]
CoordOperands == [kind : {"coord"}, x : Ints, y : Ints]
ScalarOperands == [kind : {"scalar"}, s : Ints]

CoordInit ==
    /\ a \in Coords
    /\ rhs \in CoordOperands \cup ScalarOperands
    /\ ArrayIdle /\ GridIdle
    /\ call = NoCall
    /\ out = None

\* a + rhs
DoAdd ==
    /\ call = NoCall
    /\ rhs.kind = "coord"
    /\ \E checks \in BOOLEAN :
        /\ call' = [name |-> "add", checks |-> checks]
        /\ out' = CoordAdd(checks, a, rhs)
    /\ UNCHANGED <<N, arr, wire, X, Y, block, grid, writes, a, rhs>>

\* a * rhs
DoMul ==
    /\ call = NoCall
    /\ rhs.kind = "coord"
    /\ \E checks \in BOOLEAN :
        /\ call' = [name |-> "mul", checks |-> checks]
        /\ out' = CoordMul(checks, a, rhs)
    /\ UNCHANGED <<N, arr, wire, X, Y, block, grid, writes, a, rhs>>

\* a / rhs, rhs a Coord
DoDiv ==
    /\ call = NoCall
    /\ rhs.kind = "coord"
    /\ call' = [name |-> "div"]
    /\ out' = CoordDiv(a, rhs)
    /\ UNCHANGED <<N, arr, wire, X, Y, block, grid, writes, a, rhs>>

\* a / rhs, rhs an isize
DoDivScalar ==
    /\ call = NoCall
    /\ rhs.kind = "scalar"
    /\ call' = [name |-> "div_scalar"]
    /\ out' = CoordDivScalar(a, rhs.s)
    /\ UNCHANGED <<N, arr, wire, X, Y, block, grid, writes, a, rhs>>

\* a % rhs
DoRem ==
    /\ call = NoCall
    /\ rhs.kind = "coord"
    /\ call' = [name |-> "rem"]
    /\ out' = CoordRem(a, rhs)
    /\ UNCHANGED <<N, arr, wire, X, Y, block, grid, writes, a, rhs>>

CoordNext == DoAdd \/ DoMul \/ DoDiv \/ DoDivScalar \/ DoRem

SpecCoord == CoordInit /\ [][CoordNext]_vars

\* ------------------------------------------------------------- properties

\* the first k items of the input decode as elements
Decodable(input, k) == \A j \in 1..k : input[j] >= 0

\* C1: round trip. Deserializing the sequence that serializing an array A of
\* any length N produced succeeds and returns an array with the same N
\* elements at the same indices.
RoundTrip ==
    (call.name = "deserialize" /\ call.src = "serialized") =>
        /\ out.tag = "ok"
        /\ DOMAIN out.arr = 0..(N - 1)
        /\ \A i \in 0..(N - 1) : out.arr[i] = arr[i]

RoundTripWitness ==
    /\ call.name = "deserialize" /\ call.src = "serialized"
    /\ N >= 2 /\ arr[0] # arr[1]
    /\ out.tag = "ok" /\ out.arr = arr

\* C2: length fault. Deserializing an array of length N from an input of
\* L < N elements never returns an array; the error is invalid-length and
\* reports the first missing index L (N = 4: L = 2 reports 2, L = 3 reports 3).
\* The L items present are elements, that is, each decodes as the element type.
LengthFault ==
    (call.name = "deserialize" /\ Len(wire) < N) =>
        /\ out.tag # "ok"
        /\ Decodable(wire, Len(wire)) =>
               out = [tag |-> "invalid_length", index |-> Len(wire)]

LengthFaultWitness ==
    /\ call.name = "deserialize"
    /\ N = 4 /\ Len(wire) = 3 /\ Decodable(wire, 3)
    /\ out = [tag |-> "invalid_length", index |-> 3]

\* C4: in-order fill. From an input of at least N elements deserialization
\* succeeds, consumes exactly the first N and puts input element i at result
\* index i, so every slot of the result comes from the input and not from the
\* default pre-fill; elements after the first N raise no error and stay
\* unconsumed.
InOrderFill ==
    (call.name = "deserialize" /\ Len(wire) >= N /\ Decodable(wire, N)) =>
        /\ out.tag = "ok"
        /\ DOMAIN out.arr = 0..(N - 1)
        /\ \A i \in 0..(N - 1) : out.arr[i] = wire[i + 1]
        /\ out.pos = N

InOrderFillWitness ==
    /\ call.name = "deserialize" /\ call.src = "input"
    /\ N >= 2 /\ Len(wire) > N /\ Decodable(wire, N)
    /\ wire[1] # wire[2] /\ wire[N] # DefaultElem /\ wire[N + 1] < 0
    /\ out.tag = "ok" /\ out.pos = N /\ out.arr[N - 1] = wire[N]

\* C3: grid serialization. A Grid with row length X and row count Y serializes
\* to a sequence of exactly Y sequences of exactly X identifiers, the identifier
\* of row r, column c at position c of the r-th inner sequence; Grid<2,3>
\* fill(7) gives [[7,7],[7,7],[7,7]].
GridSerializationShape ==
    (call.name = "serialize_grid") =>
        /\ out.tag = "ok"
        /\ Len(out.v) = Y
        /\ \A r \in 0..(Y - 1) :
            /\ Len(out.v[r + 1]) = X
            /\ \A c \in 0..(X - 1) : out.v[r + 1][c + 1] = grid[r][c]
        /\ (X = 2 /\ Y = 3 /\ writes = 0 /\ block = 7) =>
               out.v = << <<7, 7>>, <<7, 7>>, <<7, 7>> >>

GridSerializationWitness ==
    /\ call.name = "serialize_grid"
    /\ X = 2 /\ Y = 3 /\ writes = 1
    /\ grid[0][0] = 7 /\ grid[1][0] = 1
    /\ out.v = << <<7, 7>>, <<1, 7>>, <<7, 7>> >>

\* C5: fill law. A Grid built by fill(v) has the cell at row r, column c equal
\* to v for all r < Y and c < X, and a Row built by fill(v) has cell i equal to
\* v for all i < N, whether looked at directly or through the indexed reads.
FillLaw ==
    /\ writes = 0 =>
        /\ \A r \in 0..(Y - 1) : \A c \in 0..(X - 1) : grid[r][c] = block
        /\ (call.name = "read_cell" /\ call.r < Y /\ call.c < X) =>
               out = [tag |-> "ok", v |-> block]
        /\ (call.name = "read_row" /\ call.r < Y) =>
               /\ out.tag = "ok"
               /\ DOMAIN out.v = 0..(X - 1)
               /\ \A i \in 0..(X - 1) : out.v[i] = block
    /\ (call.name = "write_row" /\ call.r < Y) =>
        /\ DOMAIN grid[call.r] = 0..(X - 1)
        /\ \A i \in 0..(X - 1) : grid[call.r][i] = call.v

FillLawWitness ==
    /\ writes = 0 /\ X = 2 /\ Y = 3 /\ block = 7
    /\ call.name = "read_cell" /\ call.r = 2 /\ call.c = 1
    /\ out = [tag |-> "ok", v |-> 7]

\* the cells of grid h are those of grid g except that cell (r, c) holds v
OnlyCellChanged(g, h, r, c, v) ==
    /\ DOMAIN h = DOMAIN g
    /\ \A rr \in DOMAIN g :
        /\ DOMAIN h[rr] = DOMAIN g[rr]
        /\ \A cc \in DOMAIN g[rr] :
            h[rr][cc] = IF rr = r /\ cc = c THEN v ELSE g[rr][cc]

\* the rows of grid h are those of grid g except that every cell of row r holds v
OnlyRowChanged(g, h, r, v) ==
    /\ DOMAIN h = DOMAIN g
    /\ \A rr \in DOMAIN g :
        /\ DOMAIN h[rr] = DOMAIN g[rr]
        /\ \A cc \in DOMAIN g[rr] :
            h[rr][cc] = IF rr = r THEN v ELSE g[rr][cc]

\* C10: indexed access. A read or write with a row index >= Y, or with a
\* column index >= X on the row, faults and returns no value, and a faulting
\* write changes no cell; an in-range read returns the cell (or row) and an
\* in-range write sets exactly that cell (or row), every other cell unchanged.
IndexedAccess ==
    [][
        /\ call'.name = "read_cell" =>
            /\ grid' = grid
            /\ IF call'.r < Y /\ call'.c < X
               THEN out' = [tag |-> "ok", v |-> grid[call'.r][call'.c]]
               ELSE out' = Panic
        /\ call'.name = "read_row" =>
            /\ grid' = grid
            /\ IF call'.r < Y
               THEN out' = [tag |-> "ok", v |-> grid[call'.r]]
               ELSE out' = Panic
        /\ call'.name = "write_cell" =>
            IF call'.r < Y /\ call'.c < X
            THEN /\ out' # Panic
                 /\ OnlyCellChanged(grid, grid', call'.r, call'.c, call'.v)
            ELSE out' = Panic /\ grid' = grid
        /\ call'.name = "write_row" =>
            IF call'.r < Y
            THEN /\ out' # Panic
                 /\ OnlyRowChanged(grid, grid', call'.r, call'.v)
            ELSE out' = Panic /\ grid' = grid
    ]_vars

IndexedAccessWitness ==
    /\ call.name = "write_cell"
    /\ X = 2 /\ Y = 3 /\ call.r = 1 /\ call.c = X /\ call.v # block
    /\ out = Panic
    /\ grid = GridNew(X, Y, block)

\* the coordinate an operator returned
Val(res) == CoordNew(res.x, res.y)

OkCoord(x, y) == [tag |-> "ok", x |-> x, y |-> y]

\* a == add(multiply(divide(a, b), b), modulo(a, b)), q being divide(a, b)
DivRemIdentity(p, b, q) ==
    /\ q # Panic
    /\ \A checks \in BOOLEAN :
        LET prod == CoordMul(checks, Val(q), b)
            m == CoordRem(p, b)
        IN /\ prod # Panic
           /\ m # Panic
           /\ CoordAdd(checks, Val(prod), Val(m)) = OkCoord(p.x, p.y)

\* the division of x by y overflows: isize::MIN / -1
DivOverflows(x, y) == x = MinInt /\ y = -1

\* C6 as stated: for all a and b with b.x # 0 and b.y # 0 the
\* division/remainder identity holds componentwise.
DivRemIdentityAnyOperands ==
    (call.name = "div" /\ rhs.x # 0 /\ rhs.y # 0) => DivRemIdentity(a, rhs, out)

\* C6, amended: for all a and b with b.x # 0 and b.y # 0 and neither component
\* pair (a.x, b.x), (a.y, b.y) equal to (isize::MIN, -1), the
\* division/remainder identity holds componentwise.
DivRemIdentityNoOverflow ==
    (/\ call.name = "div" /\ rhs.x # 0 /\ rhs.y # 0
     /\ ~DivOverflows(a.x, rhs.x) /\ ~DivOverflows(a.y, rhs.y))
        => DivRemIdentity(a, rhs, out)

DivRemIdentityWitness ==
    /\ call.name = "div"
    /\ a = CoordNew(7, -7) /\ rhs.x = -2 /\ rhs.y = 2
    /\ out = OkCoord(-3, -3)
    /\ CoordRem(a, rhs) = OkCoord(1, -1)

\* q is x / y rounded toward zero
TruncatedQuotient(q, x, y) ==
    /\ Abs(q) * Abs(y) <= Abs(x)
    /\ Abs(x) < (Abs(q) + 1) * Abs(y)
    /\ q > 0 => (x < 0) = (y < 0)
    /\ q < 0 => (x < 0) # (y < 0)

\* C7: division truncates. Dividing by a coordinate and by a scalar gives, in
\* each component, the quotient rounded toward zero for every sign combination:
\* (-7,7) / (2,2) = (-3,3); (6,9) / (3,3) = (2,3); (6,9) % (4,4) = (2,1).
DivisionTruncates ==
    /\ (call.name = "div" /\ out # Panic) =>
        /\ TruncatedQuotient(out.x, a.x, rhs.x)
        /\ TruncatedQuotient(out.y, a.y, rhs.y)
    /\ (call.name = "div_scalar" /\ out # Panic) =>
        /\ TruncatedQuotient(out.x, a.x, rhs.s)
        /\ TruncatedQuotient(out.y, a.y, rhs.s)
    /\ (call.name = "div" /\ a = CoordNew(-7, 7) /\ rhs.x = 2 /\ rhs.y = 2) =>
        out = OkCoord(-3, 3)
    /\ (call.name = "div" /\ a = CoordNew(6, 9) /\ rhs.x = 3 /\ rhs.y = 3) =>
        out = OkCoord(2, 3)
    /\ (call.name = "rem" /\ a = CoordNew(6, 9) /\ rhs.x = 4 /\ rhs.y = 4) =>
        out = OkCoord(2, 1)

DivisionTruncatesWitness ==
    /\ call.name = "div"
    /\ a = CoordNew(-7, 7) /\ rhs.x = 2 /\ rhs.y = 2
    /\ out = OkCoord(-3, 3)

\* C8: zero divisors fault. Dividing by a coordinate with a zero component,
\* dividing by the scalar zero and taking the remainder by a coordinate with a
\* zero component panic; no coordinate is returned.
ZeroDivisorFaults ==
    /\ (call.name \in {"div", "rem"} /\ (rhs.x = 0 \/ rhs.y = 0)) => out = Panic
    /\ (call.name = "div_scalar" /\ rhs.s = 0) => out = Panic

ZeroDivisorFaultsWitness ==
    /\ call.name = "div_scalar"
    /\ a = CoordNew(6, 9) /\ rhs.s = 0
    /\ out = Panic

\* C9 as stated: for all a and b with b.x # 0 and b.y # 0,
\* divide(multiply(a, b), b) == a over the whole range of the machine integer.
MulDivAnyOperands ==
    (call.name = "mul" /\ rhs.x # 0 /\ rhs.y # 0) =>
        /\ out # Panic
        /\ CoordDiv(Val(out), rhs) = OkCoord(a.x, a.y)

\* C9, amended: for all a and b with b.x # 0 and b.y # 0 whose componentwise
\* products a.x * b.x and a.y * b.y are representable in the machine integer
\* (the multiplication does not overflow), divide(multiply(a, b), b) == a.
MulDivNoOverflow ==
    (/\ call.name = "mul" /\ rhs.x # 0 /\ rhs.y # 0
     /\ InRange(a.x * rhs.x) /\ InRange(a.y * rhs.y)) =>
        /\ out # Panic
        /\ CoordDiv(Val(out), rhs) = OkCoord(a.x, a.y)

MulDivWitness ==
    /\ call.name = "mul"
    /\ a = CoordNew(-3, 2) /\ rhs.x = 3 /\ rhs.y = -4
    /\ out = OkCoord(-9, -8)
    /\ CoordDiv(Val(out), rhs) = OkCoord(-3, 2)

====
